---- MODULE Spec2Model ----
\* Fruit ripeness classifier: the classification pipeline of js/classifier.js
\* (both revisions kept in the repository), its notification and the
\* application state that consumes it.
\*
\* Numbers.  A raw score is kept in hundredths (0.29 is 29, 1.0 is 100).  A
\* percentage is kept in tenths of a percent (80.0% is 800), so that every
\* value the code computes on this grid is an integer.  JavaScript's NaN (and
\* undefined used as a number) is the value NaN below; every real number of the
\* model is >= 0.
EXTENDS Integers, Sequences, FiniteSets, TLC

VARIABLES
    variant,          \* revision of classifier.js in use: "binary" | "multi"
    model,            \* classifier.js `model`: "null" | "real" | "mock"
    isModelLoading,   \* classifier.js `isModelLoading`
    fruitMetadata,    \* classifier.js `fruitMetadata`
    fruitTypeCache,   \* classifier.js `fruitTypeCache`
    probe,            \* arguments of a direct invocation of formatResults, or
                      \* of getRecommendationText and getRipenessIndicators
    probeOut,         \* what was returned to that invocation
    dom,              \* the page: DOMContentLoaded seen, app.js's own catalog fetch
    inits,            \* the runs of initializeClassifier, in order of invocation
    calls,            \* the invocations of classifyImage, in order of invocation
    events,           \* the 'classification-complete' events dispatched, in order
    appState,         \* app.js `appState`
    lookups,          \* direct getFruitMetadata invocations and what they returned
    appended,         \* how many results were handed to the history, by which code
    uploads           \* the files handleFileUpload accepted, and how far each has come

classifierVars == <<model, isModelLoading, fruitMetadata, fruitTypeCache>>
probeVars == <<probe, probeOut>>
pageVars == <<dom, inits, calls, events, appState>>
logVars == <<lookups, appended, uploads>>

vars == <<variant, classifierVars, probeVars, pageVars, logVars>>

----------------------------------------------------------------------------
\* JavaScript numbers on the grid

NaN == 0 - 1

\* a < b
Lt(a, b) == a # NaN /\ b # NaN /\ a < b

\* a + b
Plus(a, b) ==
    CHOOSE sum \in { IF x = NaN \/ y = NaN THEN NaN ELSE x + y : x \in {a}, y \in {b} } : TRUE

\* score * 100, a percentage (in tenths of a percent)
Times100(s) == IF s = NaN THEN NaN ELSE s * 10

\* predictionData[i] for a JavaScript index i (undefined outside the array)
At(data, i) == IF i >= 0 /\ i < Len(data) THEN data[i + 1] ELSE NaN

\* the largest of 0 and the first n elements
MaxOf(data, n) ==
    CHOOSE m \in {0} \cup {data[k] : k \in 1..n} : \A k \in 1..n : data[k] <= m

\* Math.max(...predictionData): -Infinity for no arguments, NaN if any
\* argument is NaN.  Neither is ever === an element, so both are NaN here.
MathMax(data) ==
    IF Len(data) = 0 \/ \E k \in 1..Len(data) : data[k] = NaN THEN NaN
    ELSE MaxOf(data, Len(data))

\* mutant of IndexOf: lastIndexOf
IndexOf_last(data, x) ==
    IF x # NaN /\ \E k \in 1..Len(data) : data[k] = x
    THEN (CHOOSE k \in 1..Len(data) :
             data[k] = x /\ \A j \in (k + 1)..Len(data) : data[j] # x) - 1
    ELSE 0 - 1

\* predictionData.indexOf(x): first index holding x by ===, else -1
IndexOf(data, x) ==
    IF x # NaN /\ \E k \in 1..Len(data) : data[k] = x
    THEN (CHOOSE k \in 1..Len(data) :
             data[k] = x /\ \A j \in 1..(k - 1) : data[j] # x) - 1
    ELSE 0 - 1

----------------------------------------------------------------------------
\* Strings that the code searches are sequences of characters

Lower == <<"a","b","c","d","e","f","g","h","i","j","k","l","m",
           "n","o","p","q","r","s","t","u","v","w","x","y","z">>
Upper == <<"A","B","C","D","E","F","G","H","I","J","K","L","M",
           "N","O","P","Q","R","S","T","U","V","W","X","Y","Z">>

ToLowerChar(c) ==
    IF \E k \in 1..26 : Upper[k] = c
    THEN Lower[CHOOSE k \in 1..26 : Upper[k] = c]
    ELSE c

\* String.prototype.toLowerCase
ToLowerCase(s) == [k \in 1..Len(s) |-> ToLowerChar(s[k])]

\* String.prototype.includes
Includes(s, sub) ==
    \E k \in 1..(Len(s) - Len(sub) + 1) : SubSeq(s, k, k + Len(sub) - 1) = sub

\* the `fruits` list of extractFruitType, in its order
FallbackFruits ==
    << "apple", "banana", "orange", "strawberry", "grape",
       "blueberry", "pear", "peach", "plum", "mango",
       "kiwi", "pineapple", "watermelon", "cherry" >>

Chars ==
    [ apple      |-> <<"a","p","p","l","e">>,
      banana     |-> <<"b","a","n","a","n","a">>,
      orange     |-> <<"o","r","a","n","g","e">>,
      strawberry |-> <<"s","t","r","a","w","b","e","r","r","y">>,
      grape      |-> <<"g","r","a","p","e">>,
      blueberry  |-> <<"b","l","u","e","b","e","r","r","y">>,
      pear       |-> <<"p","e","a","r">>,
      peach      |-> <<"p","e","a","c","h">>,
      plum       |-> <<"p","l","u","m">>,
      mango      |-> <<"m","a","n","g","o">>,
      kiwi       |-> <<"k","i","w","i">>,
      pineapple  |-> <<"p","i","n","e","a","p","p","l","e">>,
      watermelon |-> <<"w","a","t","e","r","m","e","l","o","n">>,
      cherry     |-> <<"c","h","e","r","r","y">> ]

\* A file argument: [type |-> "none" | "string" | "file", name |-> characters]
NoFile == [type |-> "none", name |-> <<>>]

\* JavaScript truthiness of the originalFile argument
Truthy(file) ==
    \/ file.type = "file"
    \/ file.type = "string" /\ Len(file.name) > 0

\* mutant of extractFruitType: the last name of the list that occurs wins
extractFruitType_last(fileOrName) ==
    IF fileOrName.type = "none" THEN "unknown"
    ELSE IF fileOrName.type = "file" /\ Len(fileOrName.name) = 0 THEN "unknown"
    ELSE LET fileName == ToLowerCase(fileOrName.name)
             hits == {k \in 1..Len(FallbackFruits) :
                         Includes(fileName, Chars[FallbackFruits[k]])}
         IN IF hits = {} THEN "unknown"
            ELSE FallbackFruits[CHOOSE k \in hits : \A j \in hits : k >= j]

\* extractFruitType of the binary revision
extractFruitType(fileOrName) ==
    IF fileOrName.type = "none" THEN "unknown"
    ELSE IF fileOrName.type = "file" /\ Len(fileOrName.name) = 0 THEN "unknown"
    ELSE LET fileName == ToLowerCase(fileOrName.name)
             hits == {k \in 1..Len(FallbackFruits) :
                         Includes(fileName, Chars[FallbackFruits[k]])}
         IN IF hits = {} THEN "unknown"
            ELSE FallbackFruits[CHOOSE k \in hits : \A j \in hits : k <= j]

\* capitalizeFirstLetter on the fruit types the code can produce
capitalizeFirstLetter(string) ==
    CASE string = "apple" -> "Apple"
      [] string = "banana" -> "Banana"
      [] string = "orange" -> "Orange"
      [] string = "strawberry" -> "Strawberry"
      [] string = "grape" -> "Grape"
      [] string = "blueberry" -> "Blueberry"
      [] string = "pear" -> "Pear"
      [] string = "peach" -> "Peach"
      [] string = "plum" -> "Plum"
      [] string = "mango" -> "Mango"
      [] string = "kiwi" -> "Kiwi"
      [] string = "pineapple" -> "Pineapple"
      [] string = "watermelon" -> "Watermelon"
      [] string = "cherry" -> "Cherry"
      [] string = "unknown" -> "Unknown"
      [] OTHER -> ""

----------------------------------------------------------------------------
\* The catalog document data/fruit-metadata.json and its lookups

RIPENESS_CATEGORIES == << "unripe", "ripe", "overripe", "spoiled" >>

\* `fruitMetadata = null`
NullMetadata == [loaded |-> FALSE, hasFruits |-> FALSE, fruits |-> <<>>]

\* A parsed document.  An absent text is "" (both are falsy in the code).
AppleEntry ==
    [ name |-> "apple", displayName |-> "Apple",
      qualityIndicators |-> [fresh |-> "apple quality fresh", rotten |-> "apple quality rotten"],
      storageRecommendations |-> [fresh |-> "apple storage fresh", rotten |-> "apple storage rotten"],
      variants |-> << <<"G","a","l","a">>, <<"F","u","j","i">> >> ]

BananaEntry ==
    [ name |-> "banana", displayName |-> "Banana",
      qualityIndicators |-> [fresh |-> "", rotten |-> "banana quality rotten"],
      storageRecommendations |-> [fresh |-> "banana storage fresh", rotten |-> ""],
      variants |-> << <<"C","a","v","e","n","d","i","s","h">> >> ]

CatalogDocument == [loaded |-> TRUE, hasFruits |-> TRUE, fruits |-> <<AppleEntry, BananaEntry>>]

\* A document that parses but has no `fruits` member
EmptyDocument == [loaded |-> TRUE, hasFruits |-> FALSE, fruits |-> <<>>]

Documents == {CatalogDocument, EmptyDocument}

\* getFruitMetadata: <<entry>> when found, <<>> for null
getFruitMetadata(cache, md, fruitType) ==
    IF fruitType \in DOMAIN cache THEN << cache[fruitType] >>
    ELSE IF md.loaded /\ md.hasFruits
              /\ \E k \in 1..Len(md.fruits) : md.fruits[k].name = fruitType
         THEN << md.fruits[CHOOSE k \in 1..Len(md.fruits) :
                     /\ md.fruits[k].name = fruitType
                     /\ \A j \in 1..(k - 1) : md.fruits[j].name # fruitType] >>
         ELSE << >>

\* mutant of cacheAfterLookup: the first entry of the document is cached
\* whatever was found
cacheAfterLookup_stale(cache, md, fruitType) ==
    LET fruit == getFruitMetadata(cache, md, fruitType)
    IN IF fruit = << >> \/ fruitType \in DOMAIN cache THEN cache
       ELSE [k \in DOMAIN cache \cup {fruitType} |->
                IF k = fruitType THEN md.fruits[1] ELSE cache[k]]

\* fruitTypeCache after getFruitMetadata(fruitType) has run
cacheAfterLookup(cache, md, fruitType) ==
    LET fruit == getFruitMetadata(cache, md, fruitType)
    IN IF fruit = << >> \/ fruitType \in DOMAIN cache THEN cache
       ELSE [k \in DOMAIN cache \cup {fruitType} |->
                IF k = fruitType THEN fruit[1] ELSE cache[k]]

\* the fresh/rotten axis of a ripeness category
metadataCategory(category) ==
    IF category = "ripe" \/ category = "unripe" THEN "fresh" ELSE "rotten"

\* mutant of recommendations: every category answered as 'ripe'
recommendations_ripe(category) ==
    IF category \in {"unripe", "ripe", "overripe", "spoiled"}
    THEN "Display for immediate sale"
    ELSE "Unknown recommendation"

\* the `recommendations` table
recommendations(category) ==
    CASE category = "unripe" -> "Keep in storage for ripening"
      [] category = "ripe" -> "Display for immediate sale"
      [] category = "overripe" -> "Discount and prioritize for sale"
      [] category = "spoiled" -> "Remove from inventory"
      [] OTHER -> "Unknown recommendation"

\* the `genericIndicators` table
genericIndicators(category) ==
    CASE category = "unripe" -> "Firm texture, bright color, may be hard"
      [] category = "ripe" -> "Slight give when pressed, vibrant color, sweet aroma"
      [] category = "overripe" -> "Soft spots, darker coloration, very sweet smell"
      [] category = "spoiled" -> "Mushy texture, discoloration, mold, fermented smell"
      [] OTHER -> "No specific indicators available"

\* getRecommendationText of the binary revision
getRecommendationText(cache, md, category, fruitType) ==
    LET fruit == getFruitMetadata(cache, md, fruitType)
    IN IF fruit # << >> /\ fruit[1].storageRecommendations[metadataCategory(category)] # ""
       THEN fruit[1].storageRecommendations[metadataCategory(category)]
       ELSE recommendations(category)

\* getRipenessIndicators of the binary revision
getRipenessIndicators(cache, md, category, fruitType) ==
    LET fruit == getFruitMetadata(cache, md, fruitType)
    IN IF fruit # << >> /\ fruit[1].qualityIndicators[metadataCategory(category)] # ""
       THEN fruit[1].qualityIndicators[metadataCategory(category)]
       ELSE genericIndicators(category)

\* obj[key] of a catalog sub-object, "" for undefined
Member(obj, key) == IF key \in DOMAIN obj THEN obj[key] ELSE ""

\* getRecommendationText of the multi-class revision: keyed by the category itself
getRecommendationText_multi(cache, md, category, fruitType) ==
    LET fruit == getFruitMetadata(cache, md, fruitType)
    IN IF fruit # << >> /\ Member(fruit[1].storageRecommendations, category) # ""
       THEN Member(fruit[1].storageRecommendations, category)
       ELSE recommendations(category)

\* getRipenessIndicators of the multi-class revision: reads `ripenessIndicators`
getRipenessIndicators_multi(cache, md, category, fruitType) ==
    LET fruit == getFruitMetadata(cache, md, fruitType)
    IN IF fruit # << >> /\ "ripenessIndicators" \in DOMAIN fruit[1]
          /\ Member(fruit[1].ripenessIndicators, category) # ""
       THEN Member(fruit[1].ripenessIndicators, category)
       ELSE "No specific indicators available"

----------------------------------------------------------------------------
\* Category mapping, binary revision

\* mutant of mapScoreToRipenessCategory: the lower boundary taken with <=
mapScoreToRipenessCategory_le(score) ==
    IF Lt(score, 31) THEN "ripe"
    ELSE IF Lt(score, 70) THEN "overripe"
    ELSE "spoiled"

mapScoreToRipenessCategory(score) ==
    IF Lt(score, 30) THEN "ripe"
    ELSE IF Lt(score, 70) THEN "overripe"
    ELSE "spoiled"

\* mutant of confidenceMap: the spoiled band's overripe share not halved
confidenceMap_unhalved(rottenScore) ==
    IF Lt(rottenScore, 30)
    THEN [ unripe   |-> IF 30 - rottenScore > 0 THEN (30 - rottenScore) * 10 ELSE 0,
           ripe     |-> (100 - rottenScore) * 10,
           overripe |-> 0,
           spoiled  |-> 0 ]
    ELSE IF Lt(rottenScore, 70)
    THEN [ unripe   |-> 0,
           ripe     |-> (70 - rottenScore) * 25,
           overripe |-> (rottenScore - 30) * 25,
           spoiled  |-> 0 ]
    ELSE [ unripe   |-> 0,
           ripe     |-> 0,
           overripe |-> IF rottenScore = NaN THEN NaN ELSE (100 - rottenScore) * 10,
           spoiled  |-> Times100(rottenScore) ]

\* the confidenceMap object built by formatResults, from rottenScore
confidenceMap(rottenScore) ==
    IF Lt(rottenScore, 30)
    THEN [ unripe   |-> IF 30 - rottenScore > 0 THEN (30 - rottenScore) * 10 ELSE 0,
           ripe     |-> (100 - rottenScore) * 10,
           overripe |-> 0,
           spoiled  |-> 0 ]
    ELSE IF Lt(rottenScore, 70)
    THEN [ unripe   |-> 0,
           ripe     |-> (70 - rottenScore) * 25,
           overripe |-> (rottenScore - 30) * 25,
           spoiled  |-> 0 ]
    ELSE [ unripe   |-> 0,
           ripe     |-> 0,
           overripe |-> IF rottenScore = NaN THEN NaN ELSE (100 - rottenScore) * 5,
           spoiled  |-> Times100(rottenScore) ]

\* mutant of entriesOf: categories of confidence 0 are left out
entriesOf_nonzero(map) ==
    SelectSeq([k \in 1..4 |-> [category |-> RIPENESS_CATEGORIES[k],
                               confidence |-> map[RIPENESS_CATEGORIES[k]]]],
              LAMBDA e : e.confidence # 0)

\* Object.keys(map).map(category => ({category, confidence: map[category]}))
entriesOf(map) ==
    [k \in 1..4 |-> [category |-> RIPENESS_CATEGORIES[k],
                     confidence |-> map[RIPENESS_CATEGORIES[k]]]]

\* formatResults of the binary revision (the timestamp is left out)
formatResults_binary(cache, md, predictionData, originalFile) ==
    LET rottenScore == At(predictionData, 0)
        fruitType == IF Truthy(originalFile) THEN extractFruitType(originalFile)
                     ELSE "unknown"
        ripeness == mapScoreToRipenessCategory(rottenScore)
        fruit == getFruitMetadata(cache, md, fruitType)
        map == confidenceMap(rottenScore)
    IN << [ fruitType |-> fruitType,
            fruitDisplayName |-> IF fruit # << >> THEN fruit[1].displayName
                                 ELSE capitalizeFirstLetter(fruitType),
            ripeness |-> ripeness,
            confidence |-> map[ripeness],
            rawScore |-> Times100(rottenScore),
            allConfidences |-> entriesOf(map),
            recommendedAction |-> getRecommendationText(cache, md, ripeness, fruitType),
            ripenessIndicators |-> getRipenessIndicators(cache, md, ripeness, fruitType) ] >>

----------------------------------------------------------------------------
\* Category mapping, multi-class revision.  A class name "fresh_apple" is the
\* record [prefix |-> "fresh", fruit |-> "apple"].

ClassFruits ==
    << "apple", "banana", "cherry", "grape", "kiwi", "mango",
       "orange", "peach", "pear", "plum", "strawberry", "watermelon" >>

\* number of entries of CLASS_INDICES
NumClasses == 2 * Len(ClassFruits)

\* INDICES_TO_CLASS[index]: <<class>>, or <<>> for undefined
INDICES_TO_CLASS(index) ==
    IF index >= 0 /\ index < NumClasses
    THEN << [ prefix |-> IF index < Len(ClassFruits) THEN "fresh" ELSE "rotten",
              fruit  |-> ClassFruits[(index % Len(ClassFruits)) + 1] ] >>
    ELSE << >>

\* the keys of RIPENESS_MAPPING: fresh_ and rotten_ of each of the 12 fruits
HasRipenessMapping(className) ==
    /\ className.prefix \in {"fresh", "rotten"}
    /\ \E k \in 1..Len(ClassFruits) : ClassFruits[k] = className.fruit

\* RIPENESS_MAPPING[className] for a key of the table
RIPENESS_MAPPING(className) ==
    IF className.prefix = "fresh" THEN "ripe" ELSE "spoiled"

\* mutant of mapToRipenessCategory: only the fresh classes are recognised
mapToRipenessCategory_freshOnly(className) ==
    IF className.prefix = "fresh" THEN "ripe" ELSE "unknown"

mapToRipenessCategory(className) ==
    IF HasRipenessMapping(className) THEN RIPENESS_MAPPING(className)
    ELSE IF className.prefix = "fresh" THEN "ripe"
    ELSE IF className.prefix = "rotten" THEN "spoiled"
    ELSE "unknown"

\* extractFruitType of the multi-class revision: className.split('_')[1]
extractFruitType_multi(className) == className.fruit

\* mutant of ripenessConfidences: = in place of +=
RECURSIVE ripenessConfidences_assign(_, _, _)
ripenessConfidences_assign(predictionData, category, n) ==
    IF n = 0 THEN 0
    ELSE LET before == ripenessConfidences_assign(predictionData, category, n - 1)
             index == n - 1
         IN IF (IF index < 12 THEN "ripe" ELSE "spoiled") = category
            THEN Times100(At(predictionData, index))
            ELSE before

\* ripenessConfidences[category] after the forEach over the first n indices
RECURSIVE ripenessConfidences(_, _, _)
ripenessConfidences(predictionData, category, n) ==
    IF n = 0 THEN 0
    ELSE LET before == ripenessConfidences(predictionData, category, n - 1)
             index == n - 1
         IN IF mapToRipenessCategory(INDICES_TO_CLASS(index)[1]) = category
            THEN Plus(before, Times100(At(predictionData, index)))
            ELSE before

\* formatResults of the multi-class revision: <<result>>, or <<>> when it throws
\* (className.split on an undefined class name)
formatResults_multi(cache, md, predictionData) ==
    LET highestIndex == IndexOf(predictionData, MathMax(predictionData))
        predictedClass == INDICES_TO_CLASS(highestIndex)
    IN IF predictedClass = << >> THEN << >>
       ELSE
       LET fruitType == extractFruitType_multi(predictedClass[1])
           ripeness == mapToRipenessCategory(predictedClass[1])
           fruit == getFruitMetadata(cache, md, fruitType)
       IN << [ fruitType |-> fruitType,
               fruitDisplayName |-> IF fruit # << >> THEN fruit[1].displayName
                                    ELSE capitalizeFirstLetter(fruitType),
               ripeness |-> ripeness,
               confidence |-> Times100(At(predictionData, highestIndex)),
               allConfidences |->
                   [k \in 1..4 |->
                       [category |-> RIPENESS_CATEGORIES[k],
                        confidence |-> ripenessConfidences(predictionData,
                                           RIPENESS_CATEGORIES[k], NumClasses)]],
               recommendedAction |-> getRecommendationText_multi(cache, md, ripeness, fruitType),
               ripenessIndicators |-> getRipenessIndicators_multi(cache, md, ripeness, fruitType) ] >>

\* formatResults of the revision in use
formatResults(cache, md, predictionData, originalFile) ==
    IF variant = "binary" THEN formatResults_binary(cache, md, predictionData, originalFile)
    ELSE formatResults_multi(cache, md, predictionData)

\* fruitTypeCache after formatResults has run and produced `results`
\* (nothing is looked up when it throws, or is not reached)
cacheAfterFormat(cache, md, results) ==
    IF results = << >> THEN cache ELSE cacheAfterLookup(cache, md, results[1].fruitType)

----------------------------------------------------------------------------
\* Direct invocations of formatResults on enumerated inputs

\* file names handed to the binary revision
MysteryJpg == <<"m","y","s","t","e","r","y",".","j","p","g">>
ApplePng == <<"A","p","p","l","e",".","P","N","G">>
BananaJpg == <<"b","a","n","a","n","a",".","j","p","g">>
PineappleJpg == <<"p","i","n","e","a","p","p","l","e",".","j","p","g">>
GalaJpg == <<"g","a","l","a",".","j","p","g">>

Files ==
    { NoFile,
      [type |-> "file", name |-> MysteryJpg],
      [type |-> "file", name |-> ApplePng],
      [type |-> "file", name |-> PineappleJpg],
      [type |-> "file", name |-> GalaJpg],
      [type |-> "string", name |-> BananaJpg],
      [type |-> "string", name |-> << >>] }

\* every score of [0,1] on the grid, and the empty array
BinaryData == { << s >> : s \in 0..100 } \cup { << >> }

\* values of the enumerated score vectors
VectorLevels == {0, 5, 10, 80}
SparseLevels == {0, 30, 60}

Vectors4 == [1..4 -> VectorLevels]

Sparse(len, i, a, j, b) ==
    [k \in 1..len |-> IF k = i THEN a ELSE IF k = j THEN b ELSE 0]

\* vectors of 1, 24 and 25 scores with at most two non-zero scores
SparseVectors ==
    { Sparse(len, i, a, j, b) :
        len \in {1, NumClasses, NumClasses + 1},
        i \in 1..(NumClasses + 1), j \in 1..(NumClasses + 1),
        a \in SparseLevels, b \in SparseLevels }

MultiData == Vectors4 \cup SparseVectors \cup { << >>, << NaN >>, << 40, NaN >> }

\* app.js `appState` as declared
InitialAppState ==
    [ currentImage |-> NoFile,
      classificationResults |-> << >>,
      classificationHistory |-> << >>,
      fruitMetadata |-> NullMetadata ]

\* nothing handed to the history yet, and displayResults not run yet
NoneAppended == [notified |-> 0, added |-> 0, displayed |-> 0]

\* the page before DOMContentLoaded; `app` is the revision of app.js it loads,
\* `display` the revision of the results display (js/components/
\* results-display.js unless said otherwise), displayListeners the number of
\* 'classification-complete' listeners registered that call displayResults,
\* and `upload` the revision of the upload component (js/upload.js unless
\* said otherwise)
NewPage(app) ==
    [ready |-> FALSE, appFetch |-> "none", app |-> app,
     display |-> "results-display.js", displayListeners |-> 0, upload |-> "upload.js"]

\* initializeResultsDisplay: the revision kept in js/upload.js registers a
\* listener that calls displayResults, the other registers none
initializeResultsDisplay(display, listeners) ==
    IF display = "upload.js" THEN listeners + 1 ELSE listeners

\* the DOMContentLoaded listeners that run initializeResultsDisplay: the one
\* the results display registers for itself (js/upload.js:445), when it does,
\* and then the handler of app.js, which calls it
resultsDisplayRuns(display) == IF display = "upload.js" THEN 2 ELSE 1

RECURSIVE displayListenersAfter(_, _, _)
displayListenersAfter(display, listeners, runs) ==
    IF runs = 0 THEN listeners
    ELSE displayListenersAfter(display, initializeResultsDisplay(display, listeners), runs - 1)

\* calls of displayResults made for one 'classification-complete' event: one
\* by each registered display listener, and one by the listener of the
\* earlier revision of app.js itself
displayResultsRuns(page) ==
    page.displayListeners + (IF page.app = "part_001" THEN 1 ELSE 0)

Idle == [data |-> << >>, file |-> NoFile]
NoOutput == [done |-> FALSE, out |-> << >>]

InitFormat ==
    /\ variant \in {"binary", "multi"}
    /\ model = "null"
    /\ isModelLoading = FALSE
    /\ fruitMetadata \in {NullMetadata} \cup Documents
    /\ fruitTypeCache = << >>
    /\ probe \in IF variant = "binary"
                 THEN [data : BinaryData, file : Files]
                 ELSE [data : MultiData, file : {NoFile}]
    /\ probeOut = NoOutput
    /\ dom = NewPage("app.js")
    /\ inits = << >>
    /\ calls = << >>
    /\ events = << >>
    /\ appState = InitialAppState
    /\ lookups = << >>
    /\ appended = NoneAppended
    /\ uploads = << >>

FormatBinary ==
    /\ variant = "binary"
    /\ ~probeOut.done
    /\ \E results \in {formatResults(fruitTypeCache, fruitMetadata, probe.data, probe.file)} :
          /\ probeOut' = [done |-> TRUE, out |-> results]
          /\ fruitTypeCache' = cacheAfterFormat(fruitTypeCache, fruitMetadata, results)
    /\ UNCHANGED <<variant, model, isModelLoading, fruitMetadata, probe, pageVars, logVars>>

FormatMulti ==
    /\ variant = "multi"
    /\ ~probeOut.done
    /\ \E results \in {formatResults(fruitTypeCache, fruitMetadata, probe.data, probe.file)} :
          /\ probeOut' = [done |-> TRUE, out |-> results]
          /\ fruitTypeCache' = cacheAfterFormat(fruitTypeCache, fruitMetadata, results)
    /\ UNCHANGED <<variant, model, isModelLoading, fruitMetadata, probe, pageVars, logVars>>

NextFormat == FormatBinary \/ FormatMulti

SpecFormat == InitFormat /\ [][NextFormat]_vars

----------------------------------------------------------------------------
\* The page index.html: classifier.js is loaded before app.js, and both
\* declare a global function loadFruitMetadata, so the call in
\* initializeClassifier runs app.js's, which stores the document in
\* appState.fruitMetadata and leaves the classifier's fruitMetadata alone.

MaxInits == 2
MaxCalls == 2
HistoryLimit == 10

\* a raw prediction of the mock model of the binary revision
MockScores == { << 80 >>, << 20 >> }

\* generateMockConfidences with randomIndex r: no noise at all (the peak
\* normalises to 1), or full noise (the peak stays 0.8 and the rest share 0.2)
MockVector(r, noisy) ==
    [k \in 1..NumClasses |->
        IF k = r + 1 THEN (IF noisy THEN 80 ELSE 100)
        ELSE IF noisy /\ (k - (IF k > r + 1 THEN 1 ELSE 0)) <= 20 THEN 1
        ELSE 0]

\* the values of randomIndex that are tried
MockPeaks == {12}

generateMockConfidences == { MockVector(r, noisy) : r \in MockPeaks, noisy \in BOOLEAN }

\* raw predictions of the loaded model that are tried
RealData ==
    IF variant = "binary"
    THEN { << 10 >> }
    ELSE { Sparse(NumClasses, 1, 60, 2, 30),
           Sparse(NumClasses + 1, NumClasses + 1, 60, 14, 30) }

\* predictions.dataSync() of a handle
dataSync(handle) ==
    IF handle = "real" THEN RealData
    ELSE IF variant = "binary" THEN MockScores
    ELSE generateMockConfidences

\* runtime errors the loaded model can raise; the mock raises none
Faults(handle) == IF handle = "real" THEN {"none", "predict", "dataSync"} ELSE {"none"}

\* the steps of the try block of classifyImage, in program order
Stages == << "preprocess", "predict", "dataSync", "format", "dispatch" >>

\* the steps entered by a run that ended at the n-th of them
Entered(n) == SubSeq(Stages, 1, n)

\* mutant of pipeline: model.predict is invoked before the image is looked at
pipeline_eager(handle, imgOk, file, fault, data, cache, md) ==
    IF fault = "predict"
    THEN [outcome |-> "rejected", stage |-> "predict", result |-> << >>, live |-> 1,
          entered |-> Entered(2)]
    ELSE IF ~imgOk
    THEN [outcome |-> "rejected", stage |-> "preprocess", result |-> << >>, live |-> 0,
          entered |-> Entered(2)]
    ELSE IF fault = "dataSync"
    THEN [outcome |-> "rejected", stage |-> "dataSync", result |-> << >>, live |-> 2,
          entered |-> Entered(3)]
    ELSE LET results == formatResults(cache, md, data, file)
         IN IF results = << >>
            THEN [outcome |-> "rejected", stage |-> "format", result |-> << >>, live |-> 0,
                  entered |-> Entered(4)]
            ELSE [outcome |-> "resolved", stage |-> "none", result |-> results, live |-> 0,
                  entered |-> Entered(5)]

\* The try block of classifyImage, up to the dispatch: how it ends, the result
\* it built, the tensors it created and did not dispose of, and the steps it
\* entered.
pipeline(handle, imgOk, file, fault, data, cache, md) ==
    IF ~imgOk
    THEN [outcome |-> "rejected", stage |-> "preprocess", result |-> << >>, live |-> 0,
          entered |-> Entered(1)]
    ELSE IF fault = "predict"
    THEN [outcome |-> "rejected", stage |-> "predict", result |-> << >>, live |-> 1,
          entered |-> Entered(2)]
    ELSE IF fault = "dataSync"
    THEN [outcome |-> "rejected", stage |-> "dataSync", result |-> << >>, live |-> 2,
          entered |-> Entered(3)]
    ELSE LET results == formatResults(cache, md, data, file)
         IN IF results = << >>
            THEN [outcome |-> "rejected", stage |-> "format", result |-> << >>, live |-> 0,
                  entered |-> Entered(4)]
            ELSE [outcome |-> "resolved", stage |-> "none", result |-> results, live |-> 0,
                  entered |-> Entered(5)]

\* mutant of dispatched: the dispatch moved into a finally block
dispatched_finally(evs, id, out) ==
    Append(evs, [call |-> id,
                 detail |-> IF out.result = << >> THEN [confidence |-> 0]
                            ELSE out.result[1]])

\* mutant of dispatched: the event is dispatched twice
dispatched_twice(evs, id, out) ==
    IF out.outcome = "resolved"
    THEN evs \o << [call |-> id, detail |-> out.result[1]],
                   [call |-> id, detail |-> out.result[1]] >>
    ELSE evs

\* document.dispatchEvent(new CustomEvent('classification-complete', ...)),
\* reached only when nothing before it threw; `call` tells the calls apart
dispatched(evs, id, out) ==
    IF out.outcome = "resolved"
    THEN Append(evs, [call |-> id, detail |-> out.result[1]])
    ELSE evs

\* mutant of SliceLast: slice(0, n)
SliceLast_first(seq, n) ==
    IF Len(seq) <= n THEN seq ELSE SubSeq(seq, 1, n)

\* Array.prototype.slice(-n)
SliceLast(seq, n) ==
    IF Len(seq) <= n THEN seq ELSE SubSeq(seq, Len(seq) - n + 1, Len(seq))

\* app.js's listener for 'classification-complete'
onClassificationComplete(state, id, detail) ==
    LET history == Append(state.classificationHistory, [call |-> id, detail |-> detail])
    IN [state EXCEPT
          !.classificationResults = << detail >>,
          !.classificationHistory =
              IF Len(history) > HistoryLimit THEN SliceLast(history, HistoryLimit)
              ELSE history]

\* mutant of consumed: a failed call clears the displayed result
consumed_clearing(state, id, out) ==
    IF out.outcome = "resolved"
    THEN onClassificationComplete(state, id, out.result[1])
    ELSE [state EXCEPT !.classificationResults = << >>]

\* appState after the dispatch (the listener runs inside dispatchEvent)
consumed(state, id, out) ==
    IF out.outcome = "resolved"
    THEN onClassificationComplete(state, id, out.result[1])
    ELSE state

\* a run of initializeClassifier that found no model and awaits the load
LoadingRun(by) ==
    [by |-> by, pc |-> "load", loadFailed |-> FALSE, catalog |-> "none",
     settle |-> "pending", value |-> FALSE]

\* mutant of fallbackRun: the catch block rethrows
fallbackRun_rethrow(run) ==
    [run EXCEPT !.pc = "done", !.loadFailed = TRUE, !.settle = "rejected", !.value = FALSE]

\* the catch block of initializeClassifier
fallbackRun(run) ==
    [run EXCEPT !.pc = "done", !.loadFailed = TRUE, !.settle = "resolved", !.value = FALSE]

\* the model handle the catch block installs
fallbackModel == "mock"

\* the state the calls share: the model handle, the catalog, the metadata
\* cache, and the displayed result and the history of appState
shared(handle, md, cache, state) ==
    [ model |-> handle, fruitMetadata |-> md, fruitTypeCache |-> cache,
      classificationResults |-> state.classificationResults,
      classificationHistory |-> state.classificationHistory ]

\* an invocation of classifyImage that has settled; `before` and `after` are
\* the shared state when it was invoked and when it settled
settledCall(imgOk, file, init, handle, out, before, after) ==
    [ imgOk |-> imgOk, file |-> file, pc |-> "settled", init |-> init,
      handle |-> handle, outcome |-> out.outcome, stage |-> out.stage,
      result |-> out.result, live |-> out.live, entered |-> out.entered,
      before |-> before, after |-> after ]

Init ==
    /\ variant \in {"binary", "multi"}
    /\ model = "null"
    /\ isModelLoading = FALSE
    /\ fruitMetadata = NullMetadata
    /\ fruitTypeCache = << >>
    /\ probe = Idle
    /\ probeOut = NoOutput
    /\ dom = NewPage("app.js")
    /\ inits = << >>
    /\ calls = << >>
    /\ events = << >>
    /\ appState = InitialAppState
    /\ lookups = << >>
    /\ appended = NoneAppended
    /\ uploads = << >>

\* app.js's DOMContentLoaded handler: initializeClassifier() (no model can be
\* loaded yet), the listeners, and its own loadFruitMetadata()
DOMContentLoaded ==
    /\ ~dom.ready
    /\ dom' = [dom EXCEPT !.ready = TRUE, !.appFetch = "pending",
                       !.displayListeners =
                           displayListenersAfter(dom.display, @, resultsDisplayRuns(dom.display))]
    /\ inits' = Append(inits, LoadingRun("app"))
    /\ isModelLoading' = TRUE
    /\ UNCHANGED <<variant, model, fruitMetadata, fruitTypeCache, probeVars,
                   calls, events, appState, logVars>>

\* the fetch of app.js's own loadFruitMetadata() settles
AppMetadataSettles(ok) ==
    /\ dom.appFetch = "pending"
    /\ dom' = [dom EXCEPT !.appFetch = "done"]
    /\ appState' = IF ok THEN [appState EXCEPT !.fruitMetadata = CatalogDocument]
                   ELSE appState
    /\ UNCHANGED <<variant, classifierVars, probeVars, inits, calls, events, logVars>>

\* tf.loadLayersModel resolves: model is assigned and loadFruitMetadata() called
LoadSucceeds(i) ==
    /\ inits[i].pc = "load"
    /\ model' = "real"
    /\ inits' = [inits EXCEPT ![i].pc = "metadata"]
    /\ UNCHANGED <<variant, isModelLoading, fruitMetadata, fruitTypeCache, probeVars,
                   dom, calls, events, appState, logVars>>

\* tf.loadLayersModel rejects: the catch block
LoadFails(i) ==
    /\ inits[i].pc = "load"
    /\ model' = fallbackModel
    /\ isModelLoading' = FALSE
    /\ inits' = [inits EXCEPT ![i] = fallbackRun(inits[i])]
    /\ UNCHANGED <<variant, fruitMetadata, fruitTypeCache, probeVars,
                   dom, calls, events, appState, logVars>>

\* mutant of metadataRun: a failed fetch escapes loadFruitMetadata
metadataRun_abort(run, ok) ==
    [run EXCEPT !.pc = "done", !.catalog = IF ok THEN "loaded" ELSE "failed",
                !.settle = IF ok THEN "resolved" ELSE "rejected", !.value = ok]

\* loadFruitMetadata() has settled (it absorbs a failed fetch or parse) and
\* initializeClassifier returns true
metadataRun(run, ok) ==
    [run EXCEPT !.pc = "done", !.catalog = IF ok THEN "loaded" ELSE "failed",
                !.settle = "resolved", !.value = TRUE]

\* the fetch made for initializeClassifier settles
MetadataSettles(i, ok) ==
    /\ inits[i].pc = "metadata"
    /\ appState' = IF ok THEN [appState EXCEPT !.fruitMetadata = CatalogDocument]
                   ELSE appState
    /\ isModelLoading' = FALSE
    /\ inits' = [inits EXCEPT ![i] = metadataRun(inits[i], ok)]
    /\ UNCHANGED <<variant, model, fruitMetadata, fruitTypeCache, probeVars,
                   dom, calls, events, logVars>>

\* classifyImage invoked while no model is held: it calls initializeClassifier
\* and waits for it
ClassifyImageLoading(imgOk, file) ==
    /\ dom.ready
    /\ Len(calls) < MaxCalls
    /\ model = "null"
    /\ Len(inits) < MaxInits
    /\ inits' = Append(inits, LoadingRun("classifyImage"))
    /\ isModelLoading' = TRUE
    /\ calls' = Append(calls,
          [ imgOk |-> imgOk, file |-> file, pc |-> "awaitInit", init |-> Len(inits) + 1,
            handle |-> "null", outcome |-> "pending", stage |-> "none",
            result |-> << >>, live |-> 0, entered |-> << >>,
            before |-> shared(model, fruitMetadata, fruitTypeCache, appState),
            after |-> shared(model, fruitMetadata, fruitTypeCache, appState) ])
    /\ UNCHANGED <<variant, model, fruitMetadata, fruitTypeCache, probeVars,
                   dom, events, appState, logVars>>

\* mutant of ClassifyImageReady: a new submission cancels the calls in flight
ClassifyImageReady_cancelling(imgOk, file) ==
    /\ dom.ready
    /\ Len(calls) < MaxCalls
    /\ model # "null"
    /\ \E fault \in Faults(model), data \in dataSync(model) :
          \E out \in {pipeline(model, imgOk, file, fault, data, fruitTypeCache, fruitMetadata)} :
             /\ events' = dispatched(events, Len(calls) + 1, out)
             /\ appState' = consumed(appState, Len(calls) + 1, out)
             /\ fruitTypeCache' = cacheAfterFormat(fruitTypeCache, fruitMetadata, out.result)
             /\ calls' = Append([k \in 1..Len(calls) |->
                                    IF calls[k].pc = "awaitInit"
                                    THEN [calls[k] EXCEPT !.pc = "cancelled"]
                                    ELSE calls[k]],
                    settledCall(imgOk, file, 0, model, out,
                                shared(model, fruitMetadata, fruitTypeCache, appState),
                                shared(model, fruitMetadata, fruitTypeCache', appState')))
    /\ UNCHANGED <<variant, model, isModelLoading, fruitMetadata, probeVars, dom, inits, logVars>>

\* classifyImage invoked while a model is held: the whole body runs at once
ClassifyImageReady(imgOk, file) ==
    /\ dom.ready
    /\ Len(calls) < MaxCalls
    /\ model # "null"
    /\ \E fault \in Faults(model), data \in dataSync(model) :
          \E out \in {pipeline(model, imgOk, file, fault, data, fruitTypeCache, fruitMetadata)} :
             /\ events' = dispatched(events, Len(calls) + 1, out)
             /\ appState' = consumed(appState, Len(calls) + 1, out)
             /\ fruitTypeCache' = cacheAfterFormat(fruitTypeCache, fruitMetadata, out.result)
             /\ calls' = Append(calls,
                    settledCall(imgOk, file, 0, model, out,
                                shared(model, fruitMetadata, fruitTypeCache, appState),
                                shared(model, fruitMetadata, fruitTypeCache', appState')))
    /\ UNCHANGED <<variant, model, isModelLoading, fruitMetadata, probeVars, dom, inits, logVars>>

\* classifyImage resumes after the initializeClassifier it awaited has settled
ClassifyImageResumes(c) ==
    /\ calls[c].pc = "awaitInit"
    /\ inits[calls[c].init].pc = "done"
    /\ \E fault \in Faults(model), data \in dataSync(model) :
          \E out \in { IF inits[calls[c].init].settle = "rejected"
                       THEN [outcome |-> "rejected", stage |-> "init",
                             result |-> << >>, live |-> 0, entered |-> << >>]
                       ELSE pipeline(model, calls[c].imgOk, calls[c].file, fault, data,
                                     fruitTypeCache, fruitMetadata) } :
             /\ events' = dispatched(events, c, out)
             /\ appState' = consumed(appState, c, out)
             /\ fruitTypeCache' = cacheAfterFormat(fruitTypeCache, fruitMetadata, out.result)
             /\ calls' = [calls EXCEPT ![c] =
                    settledCall(calls[c].imgOk, calls[c].file, calls[c].init, model, out,
                                calls[c].before,
                                shared(model, fruitMetadata, fruitTypeCache', appState'))]
    /\ UNCHANGED <<variant, model, isModelLoading, fruitMetadata, probeVars, dom, inits, logVars>>

\* the image elements and files handed to classifyImage
UploadedFiles == { [type |-> "file", name |-> ApplePng] }

Next ==
    \/ DOMContentLoaded
    \/ \E ok \in BOOLEAN : AppMetadataSettles(ok)
    \/ \E i \in 1..Len(inits) : LoadSucceeds(i)
    \/ \E i \in 1..Len(inits) : LoadFails(i)
    \/ \E i \in 1..Len(inits), ok \in BOOLEAN : MetadataSettles(i, ok)
    \/ \E imgOk \in BOOLEAN, file \in UploadedFiles : ClassifyImageLoading(imgOk, file)
    \/ \E imgOk \in BOOLEAN, file \in UploadedFiles : ClassifyImageReady(imgOk, file)
    \/ \E c \in 1..Len(calls) : ClassifyImageResumes(c)

Spec == Init /\ [][Next]_vars

\* The promises the page waits for settle, and a continuation whose promise
\* has settled is run: while a model load or a catalog fetch is outstanding,
\* or a call waits for a run that has settled, one of them makes its step.
Settling ==
    \/ \E i \in 1..Len(inits) : LoadSucceeds(i) \/ LoadFails(i)
    \/ \E i \in 1..Len(inits), ok \in BOOLEAN : MetadataSettles(i, ok)
    \/ \E c \in 1..Len(calls) : ClassifyImageResumes(c)

Fairness == WF_vars(Settling)

SpecLive == Spec /\ Fairness


----------------------------------------------------------------------------
\* Properties of the category mapping (checked under SpecFormat)

Produced == probeOut.done /\ probeOut.out # << >>
Result == probeOut.out[1]
NonNegative(data) == \A k \in 1..Len(data) : data[k] # NaN /\ data[k] >= 0

\* a raw prediction of the shape the revision in use expects
WellFormed(data) ==
    /\ NonNegative(data)
    /\ Len(data) = (IF variant = "binary" THEN 1 ELSE NumClasses)

\* the confidence of the allConfidences entry of a category
EntryOf(result, category) ==
    LET ks == {k \in 1..Len(result.allConfidences) :
                  result.allConfidences[k].category = category}
    IN result.allConfidences[CHOOSE k \in ks : TRUE].confidence

\* the lowest index (from 0) holding the largest score
LowestArgMax(data) ==
    (CHOOSE k \in 1..Len(data) :
        /\ \A j \in 1..Len(data) : data[j] <= data[k]
        /\ \A j \in 1..(k - 1) : data[j] < data[k]) - 1

RECURSIVE SumRange(_, _, _)
SumRange(data, lo, hi) ==
    IF lo > hi THEN 0 ELSE data[lo] + SumRange(data, lo + 1, hi)

\* C1: in binary mode a score below 0.3 maps to ripe, a score from 0.3 up to
\* but not including 0.7 maps to overripe, and a score of 0.7 or more maps to
\* spoiled; 0.29 is ripe, 0.30 and 0.69 overripe, 0.70 spoiled.
C1_BinaryBands ==
    (variant = "binary" /\ Produced /\ Len(probe.data) = 1) =>
        LET s == probe.data[1]
        IN /\ (s < 30 => Result.ripeness = "ripe")
           /\ (s >= 30 /\ s < 70 => Result.ripeness = "overripe")
           /\ (s >= 70 => Result.ripeness = "spoiled")
           /\ (s = 29 => Result.ripeness = "ripe")
           /\ (s = 30 \/ s = 69 => Result.ripeness = "overripe")
           /\ (s = 70 => Result.ripeness = "spoiled")

C1_Witness ==
    /\ variant = "binary" /\ Produced
    /\ probe.data = << 30 >>
    /\ Result.ripeness = "overripe"

\* C2 as stated: for a non-negative vector of four scores the ripeness is the
\* category of RIPENESS_CATEGORIES at the lowest arg-max index.
C2_AsStated ==
    (variant = "multi" /\ probeOut.done /\ Len(probe.data) = 4 /\ NonNegative(probe.data)) =>
        /\ probeOut.out # << >>
        /\ Result.ripeness = RIPENESS_CATEGORIES[LowestArgMax(probe.data) + 1]

\* C2 amended: for a non-negative vector of 1 to 24 scores, one per class in
\* the order of CLASS_INDICES, the result carries the ripeness RIPENESS_MAPPING
\* gives the class at the lowest arg-max index (ripe for indices 0..11,
\* spoiled for 12..23) and that class's fruit; four scores always give ripe.
C2_ArgMaxClass ==
    (variant = "multi" /\ probeOut.done /\ Len(probe.data) >= 1
        /\ Len(probe.data) <= 24 /\ NonNegative(probe.data)) =>
        LET am == LowestArgMax(probe.data)
        IN /\ probeOut.out # << >>
           /\ Result.ripeness = (IF am < 12 THEN "ripe" ELSE "spoiled")
           /\ Result.fruitType = ClassFruits[(am % 12) + 1]
           /\ (Len(probe.data) = 4 => Result.ripeness = "ripe")

\* a tie between a fresh class and a later rotten class resolves to the fresh one
C2_Witness ==
    /\ variant = "multi" /\ Produced /\ Len(probe.data) = 24
    /\ \E i \in 1..12, j \in 13..24 :
          /\ probe.data[i] = 60 /\ probe.data[j] = 60
          /\ Result.fruitType = ClassFruits[i]
    /\ Result.ripeness = "ripe"

\* C3: in a result of either revision (built from a raw prediction of the
\* expected length), confidence is the confidence of the allConfidences entry
\* whose category is the result's ripeness.
C3_ConfidenceIsEntry ==
    (Produced /\ WellFormed(probe.data)) =>
        Result.confidence = EntryOf(Result, Result.ripeness)

\* C4: the ripeness of a result is one of unripe, ripe, overripe, spoiled,
\* whatever the raw prediction was.
C4_RipenessCanonical ==
    Produced => Result.ripeness \in {"unripe", "ripe", "overripe", "spoiled"}

\* the empty raw prediction of the binary revision still maps to a category
C4_Witness ==
    /\ variant = "binary" /\ Produced
    /\ probe.data = << >>
    /\ Result.ripeness = "spoiled"

\* C5: allConfidences has exactly four entries, one for each category.
C5_FourEntries ==
    Produced =>
        /\ Len(Result.allConfidences) = 4
        /\ \A c \in {"unripe", "ripe", "overripe", "spoiled"} :
              Cardinality({k \in 1..Len(Result.allConfidences) :
                              Result.allConfidences[k].category = c}) = 1

C5_Witness ==
    /\ variant = "binary" /\ Produced
    /\ probe.data = << 10 >>
    /\ Len(Result.allConfidences) = 4
    /\ EntryOf(Result, "overripe") = 0

\* C6: the synthesized distribution of the binary revision, for s in [0,1]:
\* below 0.3 ripe=(1-s)*100, unripe=max(0.3-s,0)*100, the others 0; from 0.3
\* up to 0.7 overripe=((s-0.3)/0.4)*100, ripe=((0.7-s)/0.4)*100, the others 0;
\* from 0.7 spoiled=s*100, overripe=(1-s)*100*0.5, the others 0; every entry
\* is between 0 and 100.  (Percentages are in tenths; divisions are
\* cross-multiplied.)
C6_Distribution ==
    (variant = "binary" /\ Produced /\ Len(probe.data) = 1) =>
        LET s == probe.data[1]
            unripe == EntryOf(Result, "unripe")
            ripe == EntryOf(Result, "ripe")
            overripe == EntryOf(Result, "overripe")
            spoiled == EntryOf(Result, "spoiled")
        IN /\ (s < 30 =>
                 /\ ripe = 1000 - 10 * s
                 /\ unripe = 300 - 10 * s
                 /\ overripe = 0 /\ spoiled = 0)
           /\ (s >= 30 /\ s < 70 =>
                 /\ 40 * overripe = 1000 * (s - 30)
                 /\ 40 * ripe = 1000 * (70 - s)
                 /\ unripe = 0 /\ spoiled = 0)
           /\ (s >= 70 =>
                 /\ spoiled = 10 * s
                 /\ 2 * overripe = 1000 - 10 * s
                 /\ unripe = 0 /\ ripe = 0)
           /\ \A c \in {unripe, ripe, overripe, spoiled} : 0 <= c /\ c <= 1000

C6_Witness ==
    /\ variant = "binary" /\ Produced
    /\ probe.data = << 40 >>
    /\ EntryOf(Result, "overripe") = 250
    /\ EntryOf(Result, "ripe") = 750

\* C7 as stated: four scores appear in allConfidences each times 100 under
\* its own category; [0.05,0.80,0.10,0.05] gives ripe, 80 and 5, 80, 10, 5.
C7_AsStated ==
    (variant = "multi" /\ probeOut.done /\ Len(probe.data) = 4 /\ NonNegative(probe.data)) =>
        /\ probeOut.out # << >>
        /\ \A k \in 1..4 :
              EntryOf(Result, RIPENESS_CATEGORIES[k]) = 10 * probe.data[k]

\* C7 amended: for a vector of 24 class scores allConfidences aggregates the
\* scores by mapped category: ripe is 100 times the sum of the 12 fresh
\* scores, spoiled 100 times the sum of the 12 rotten scores, unripe and
\* overripe are 0, and confidence is 100 times the largest score; four scores
\* [0.05,0.80,0.10,0.05] give ripeness ripe, confidence 80, unripe=overripe=0
\* and ripe=spoiled=NaN (the 20 missing scores are undefined).
C7_Aggregated ==
    (variant = "multi" /\ Produced /\ NonNegative(probe.data)) =>
        /\ (Len(probe.data) = 24 =>
              /\ EntryOf(Result, "ripe") = 10 * SumRange(probe.data, 1, 12)
              /\ EntryOf(Result, "spoiled") = 10 * SumRange(probe.data, 13, 24)
              /\ EntryOf(Result, "unripe") = 0
              /\ EntryOf(Result, "overripe") = 0
              /\ Result.confidence = 10 * probe.data[LowestArgMax(probe.data) + 1])
        /\ (probe.data = << 5, 80, 10, 5 >> =>
              /\ Result.ripeness = "ripe"
              /\ Result.confidence = 800
              /\ EntryOf(Result, "ripe") = NaN
              /\ EntryOf(Result, "unripe") = 0
              /\ EntryOf(Result, "overripe") = 0
              /\ EntryOf(Result, "spoiled") = NaN)

C7_Witness ==
    /\ variant = "multi" /\ Produced /\ Len(probe.data) = 24
    /\ \E i \in 1..12, j \in 1..12 :
          i # j /\ probe.data[i] = 60 /\ probe.data[j] = 30
    /\ EntryOf(Result, "ripe") = 900
    /\ Result.confidence = 600

----------------------------------------------------------------------------
\* Properties of classifyImage and initializeClassifier (checked under Spec)

EventsOf(c) == {k \in 1..Len(events) : events[k].call = c}
HistoryOf(c) ==
    {k \in 1..Len(appState.classificationHistory) :
        appState.classificationHistory[k].call = c}
Resolved == {c \in 1..Len(calls) : calls[c].outcome = "resolved"}
Rejected == {c \in 1..Len(calls) : calls[c].outcome = "rejected"}

\* C8: a call in which preprocessing, predict, dataSync or formatting failed
\* is rejected, no 'classification-complete' event is dispatched for it, and
\* no result of it reaches the listener's state or the history.
C8_NoEmissionOnFailure ==
    /\ \A c \in 1..Len(calls) :
          (calls[c].pc = "settled" /\ calls[c].stage # "none") =>
              /\ calls[c].outcome = "rejected"
              /\ calls[c].result = << >>
              /\ EventsOf(c) = {}
              /\ HistoryOf(c) = {}
    /\ (Resolved = {} =>
          /\ events = << >>
          /\ appState.classificationResults = << >>
          /\ appState.classificationHistory = << >>)

\* one call failed in predict, another succeeded: one event only
C8_Witness ==
    \E c \in Rejected, d \in Resolved :
        /\ calls[c].stage = "predict"
        /\ EventsOf(c) = {}
        /\ Len(events) = 1

\* C9: each successful call dispatches exactly one event, whose payload is
\* the result the call returns; the number of events is the number of
\* successful calls.
C9_OneEventPerSuccess ==
    /\ \A c \in Resolved :
          /\ Cardinality(EventsOf(c)) = 1
          /\ \A k \in EventsOf(c) : << events[k].detail >> = calls[c].result
    /\ Len(events) = Cardinality(Resolved)

C9_Witness ==
    /\ Cardinality(Resolved) = 2
    /\ Len(events) = 2
    /\ \A c \in Resolved : \E k \in EventsOf(c) : << events[k].detail >> = calls[c].result

\* C10: a run of initializeClassifier whose model load failed resolves (it is
\* not rejected) with a model installed, and a classifyImage call served by
\* the mock handle with a decodable image yields a result, not an error.
C10_LoadFailureIsSoft ==
    /\ \A i \in 1..Len(inits) :
          inits[i].loadFailed =>
              /\ inits[i].pc = "done"
              /\ inits[i].settle = "resolved"
              /\ model # "null"
    /\ \A c \in 1..Len(calls) :
          (calls[c].pc = "settled" /\ calls[c].handle = "mock" /\ calls[c].imgOk) =>
              /\ calls[c].outcome = "resolved"
              /\ calls[c].result # << >>
              /\ EventsOf(c) # {}

\* a call that waited for a failed load and was then served by the mock
C10_Witness ==
    \E c \in Resolved :
        /\ calls[c].init # 0
        /\ inits[calls[c].init].loadFailed
        /\ calls[c].handle = "mock"
        /\ calls[c].result # << >>

----------------------------------------------------------------------------
\* Properties of a failed catalog load (checked under Spec)

\* runs of initializeClassifier whose catalog fetch or parse failed
CatalogFailed == {i \in 1..Len(inits) : inits[i].catalog = "failed"}

\* the calls that built a result, in a state where a catalog load has failed
\* (the calls made after the failure are among them)
ResolvedAfterCatalogFailure == {c \in Resolved : CatalogFailed # {}}

----------------------------------------------------------------------------
\* The history buffer appState.classificationHistory and the code that
\* appends to it: the 'classification-complete' listener of app.js, the
\* listener of the earlier revision of app.js (src/unnamed/part_001), and
\* addDataPointToHistory of visualization.js.

MaxAppends == 52
DataPointLimit == 50

\* the result carried by the n-th append (a fresh binary result, its score
\* varying with n)
EmittedResult(n) ==
    formatResults_binary(<< >>, NullMetadata, << (37 * n) % 101 >>, NoFile)[1]

\* the listener of the earlier revision of app.js: no limit
onClassificationComplete_uncapped(state, id, detail) ==
    [state EXCEPT
        !.classificationResults = << detail >>,
        !.classificationHistory = Append(@, [call |-> id, detail |-> detail])]

\* the listener of the revision of app.js the page loads
listener(app, state, id, detail) ==
    IF app = "app.js" THEN onClassificationComplete(state, id, detail)
    ELSE onClassificationComplete_uncapped(state, id, detail)

\* addDataPointToHistory: push, then one shift() when over the limit
addDataPointToHistory(state, id, dataPoint) ==
    LET pushed == Append(state.classificationHistory, [call |-> id, detail |-> dataPoint])
    IN [state EXCEPT
          !.classificationHistory =
              IF Len(pushed) > DataPointLimit THEN Tail(pushed) ELSE pushed]

Appends == appended.notified + appended.added

InitHistory ==
    /\ variant = "binary"
    /\ model = "null"
    /\ isModelLoading = FALSE
    /\ fruitMetadata = NullMetadata
    /\ fruitTypeCache = << >>
    /\ probe = Idle
    /\ probeOut = NoOutput
    /\ dom \in { [NewPage(app) EXCEPT !.display = display] :
                     app \in {"app.js", "part_001"},
                     display \in {"results-display.js", "upload.js"} }
    /\ inits = << >>
    /\ calls = << >>
    /\ events = << >>
    /\ appState = InitialAppState
    /\ lookups = << >>
    /\ appended = NoneAppended
    /\ uploads = << >>

\* a 'classification-complete' event reaches the listener
Notify ==
    /\ dom.ready
    /\ Appends < MaxAppends
    /\ appState' = listener(dom.app, appState, Appends + 1, EmittedResult(Appends + 1))
    /\ appended' = [appended EXCEPT !.notified = @ + 1,
                                    !.displayed = @ + displayResultsRuns(dom)]
    /\ UNCHANGED <<variant, classifierVars, probeVars, dom, inits, calls, events, lookups, uploads>>

\* addDataPointToHistory(dataPoint) is called
AddDataPoint ==
    /\ dom.ready
    /\ Appends < MaxAppends
    /\ appState' = addDataPointToHistory(appState, Appends + 1, EmittedResult(Appends + 1))
    /\ appended' = [appended EXCEPT !.added = @ + 1]
    /\ UNCHANGED <<variant, classifierVars, probeVars, dom, inits, calls, events, lookups, uploads>>

NextHistory == DOMContentLoaded \/ Notify \/ AddDataPoint

SpecHistory == InitHistory /\ [][NextHistory]_vars

----------------------------------------------------------------------------
\* Properties of the history buffer (checked under SpecHistory)

Min(a, b) == IF a < b THEN a ELSE b

History == appState.classificationHistory

\* C12: after the notifications handled so far the history holds at most 10
\* entries (at most 50 once addDataPointToHistory has appended).
C12_HistoryBounded ==
    Len(History) <= (IF appended.added = 0 THEN HistoryLimit ELSE DataPointLimit)

\* C13: the history holds the most recent results in the order they were
\* appended, each kept whatever the others are: the last min(n, 10) of n
\* results appended by the listener of app.js, the last min(n, 50) of n
\* results appended by addDataPointToHistory.
C13_Fifo ==
    /\ \A k \in 1..Len(History) :
          History[k] = [call |-> Appends - Len(History) + k,
                        detail |-> EmittedResult(Appends - Len(History) + k)]
    /\ (dom.app = "app.js" /\ appended.added = 0) =>
          Len(History) = Min(Appends, HistoryLimit)
    /\ appended.notified = 0 => Len(History) = Min(Appends, DataPointLimit)

\* capacity + 1 notifications: the first result is gone, the last is the
\* final element
C13_Witness ==
    /\ dom.app = "app.js"
    /\ appended.notified = HistoryLimit + 1 /\ appended.added = 0
    /\ Len(History) = HistoryLimit
    /\ History[1].call = 2
    /\ History[HistoryLimit].call = HistoryLimit + 1
    /\ \A k \in 1..Len(History) : History[k].call # 1

----------------------------------------------------------------------------
\* Direct invocations of getRecommendationText(category, fruitType) and
\* getRipenessIndicators(category, fruitType) on enumerated arguments

\* fruit types asked for: one with every text, one with a text missing on
\* each axis, one without an entry
AskedFruitTypes == {"apple", "banana", "unknown"}

AskedCategories == {RIPENESS_CATEGORIES[k] : k \in 1..Len(RIPENESS_CATEGORIES)}

InitEnrich ==
    /\ variant \in {"binary", "multi"}
    /\ model = "null"
    /\ isModelLoading = FALSE
    /\ fruitMetadata \in {NullMetadata} \cup Documents
    /\ probe \in [category : AskedCategories, fruitType : AskedFruitTypes]
    /\ fruitTypeCache \in {<< >>, cacheAfterLookup(<< >>, fruitMetadata, probe.fruitType)}
    /\ probeOut = NoOutput
    /\ dom = NewPage("app.js")
    /\ inits = << >>
    /\ calls = << >>
    /\ events = << >>
    /\ appState = InitialAppState
    /\ lookups = << >>
    /\ appended = NoneAppended
    /\ uploads = << >>

\* the functions already invoked on the probe
Invoked == {probeOut.out[k].fn : k \in 1..Len(probeOut.out)}

GetRecommendationText ==
    /\ "getRecommendationText" \notin Invoked
    /\ probeOut' =
          [done |-> TRUE,
           out |-> Append(probeOut.out,
              [fn |-> "getRecommendationText",
               text |-> IF variant = "binary"
                        THEN getRecommendationText(fruitTypeCache, fruitMetadata,
                                                   probe.category, probe.fruitType)
                        ELSE getRecommendationText_multi(fruitTypeCache, fruitMetadata,
                                                         probe.category, probe.fruitType)])]
    /\ fruitTypeCache' = cacheAfterLookup(fruitTypeCache, fruitMetadata, probe.fruitType)
    /\ UNCHANGED <<variant, model, isModelLoading, fruitMetadata, probe, pageVars, logVars>>

GetRipenessIndicators ==
    /\ "getRipenessIndicators" \notin Invoked
    /\ probeOut' =
          [done |-> TRUE,
           out |-> Append(probeOut.out,
              [fn |-> "getRipenessIndicators",
               text |-> IF variant = "binary"
                        THEN getRipenessIndicators(fruitTypeCache, fruitMetadata,
                                                   probe.category, probe.fruitType)
                        ELSE getRipenessIndicators_multi(fruitTypeCache, fruitMetadata,
                                                         probe.category, probe.fruitType)])]
    /\ fruitTypeCache' = cacheAfterLookup(fruitTypeCache, fruitMetadata, probe.fruitType)
    /\ UNCHANGED <<variant, model, isModelLoading, fruitMetadata, probe, pageVars, logVars>>

NextEnrich == GetRecommendationText \/ GetRipenessIndicators

SpecEnrich == InitEnrich /\ [][NextEnrich]_vars

----------------------------------------------------------------------------
\* Properties of the text lookups (checked under SpecEnrich)

\* the catalog entries named f, by position in the document
EntriesNamed(f) ==
    IF fruitMetadata.loaded /\ fruitMetadata.hasFruits
    THEN {k \in 1..Len(fruitMetadata.fruits) : fruitMetadata.fruits[k].name = f}
    ELSE {}

\* the first of them
FirstEntry(f) ==
    fruitMetadata.fruits[CHOOSE k \in EntriesNamed(f) : \A j \in EntriesNamed(f) : k <= j]

Axis(category) ==
    CASE category \in {"ripe", "unripe"} -> "fresh"
      [] category \in {"overripe", "spoiled"} -> "rotten"

\* what was returned to the invocation of fn
Returned(fn) ==
    {probeOut.out[k].text : k \in {j \in 1..Len(probeOut.out) : probeOut.out[j].fn = fn}}

\* the text the claim's rule gives: the entry's value on the axis when the
\* entry and the value exist, the generic text of the category otherwise
AxisText(field, generic) ==
    IF EntriesNamed(probe.fruitType) # {}
       /\ FirstEntry(probe.fruitType)[field][Axis(probe.category)] # ""
    THEN FirstEntry(probe.fruitType)[field][Axis(probe.category)]
    ELSE generic

\* C14: both functions, in both revisions, answer by the axis rule.
C14_AxisLookup ==
    /\ Returned("getRecommendationText")
          \subseteq {AxisText("storageRecommendations", recommendations(probe.category))}
    /\ Returned("getRipenessIndicators")
          \subseteq {AxisText("qualityIndicators", genericIndicators(probe.category))}

\* binary revision, 'unripe' banana: the recommendation is the entry's text on
\* the fresh axis, and the indicators, missing on that axis, are generic
C14_Witness ==
    /\ variant = "binary"
    /\ fruitMetadata = CatalogDocument
    /\ probe = [category |-> "unripe", fruitType |-> "banana"]
    /\ Returned("getRecommendationText") = {"banana storage fresh"}
    /\ Returned("getRipenessIndicators") = {"Firm texture, bright color, may be hard"}

----------------------------------------------------------------------------
\* Properties of the results for fruit types without a catalog entry (checked
\* under SpecFormat)

GenericAction(category) ==
    CASE category = "unripe" -> "Keep in storage for ripening"
      [] category = "ripe" -> "Display for immediate sale"
      [] category = "overripe" -> "Discount and prioritize for sale"
      [] category = "spoiled" -> "Remove from inventory"

\* C15: a result whose fruit type has no catalog entry carries the generic
\* recommendation of its ripeness category; binary score 0.1 with the file
\* 'mystery.jpg' gives fruit type 'unknown', 'ripe' and 'Display for
\* immediate sale'.
C15_UnknownFruitGeneric ==
    /\ (Produced /\ EntriesNamed(Result.fruitType) = {}) =>
          Result.recommendedAction = GenericAction(Result.ripeness)
    /\ (variant = "binary" /\ probeOut.done
           /\ probe = [data |-> << 10 >>, file |-> [type |-> "file", name |-> MysteryJpg]]) =>
          /\ Produced
          /\ Result.fruitType = "unknown"
          /\ Result.ripeness = "ripe"
          /\ Result.recommendedAction = "Display for immediate sale"

\* a spoiled fruit of unknown type, classified with the catalog loaded
C15_Witness ==
    /\ variant = "binary"
    /\ fruitMetadata = CatalogDocument
    /\ Produced
    /\ probe.file = [type |-> "file", name |-> MysteryJpg]
    /\ Result.fruitType = "unknown"
    /\ Result.ripeness = "spoiled"
    /\ Result.recommendedAction = "Remove from inventory"

----------------------------------------------------------------------------
\* Properties of the fruit type of a result (checked under SpecFormat)

\* the file name as searched, and whether there is one
SearchedName == ToLowerCase(probe.file.name)
HasName == probe.file.type # "none" /\ Len(probe.file.name) > 0

\* positions of the catalog entries whose name, or one of whose variant
\* aliases, occurs in the file name
CatalogNameHits ==
    IF fruitMetadata.loaded /\ fruitMetadata.hasFruits
    THEN {k \in 1..Len(fruitMetadata.fruits) :
             Includes(SearchedName, Chars[fruitMetadata.fruits[k].name])}
    ELSE {}

CatalogAliasHits ==
    IF fruitMetadata.loaded /\ fruitMetadata.hasFruits
    THEN {k \in 1..Len(fruitMetadata.fruits) :
             \E v \in 1..Len(fruitMetadata.fruits[k].variants) :
                 Includes(SearchedName, ToLowerCase(fruitMetadata.fruits[k].variants[v]))}
    ELSE {}

\* positions of the names of the hardcoded list that occur in the file name
ListHits == {k \in 1..Len(FallbackFruits) : Includes(SearchedName, Chars[FallbackFruits[k]])}

Least(S) == CHOOSE k \in S : \A j \in S : k <= j

\* C16 as stated: catalog name first, then catalog variant alias, then the
\* hardcoded list, else 'unknown'.
C16_AsStated ==
    (variant = "binary" /\ Produced) =>
        Result.fruitType =
            IF ~HasName THEN "unknown"
            ELSE IF CatalogNameHits # {}
                 THEN fruitMetadata.fruits[Least(CatalogNameHits)].name
            ELSE IF CatalogAliasHits # {}
                 THEN fruitMetadata.fruits[Least(CatalogAliasHits)].name
            ELSE IF ListHits # {} THEN FallbackFruits[Least(ListHits)]
            ELSE "unknown"

\* C16 (amended): the catalog is not consulted.  In the binary revision the
\* fruit type is the first name of the hardcoded list, in list order, that
\* occurs in the lowercased file name, and 'unknown' when none occurs or no
\* file name is given; in the 24-class revision it is the fruit of the
\* predicted class.
C16_ListOnly ==
    /\ (variant = "binary" /\ Produced) =>
          /\ (Result.fruitType = "unknown") <=> (~HasName \/ ListHits = {})
          /\ (HasName /\ ListHits # {}) =>
                /\ Result.fruitType = FallbackFruits[Least(ListHits)]
                /\ Includes(SearchedName, Chars[Result.fruitType])
    /\ (variant = "multi" /\ Produced /\ WellFormed(probe.data)) =>
          Result.fruitType = ClassFruits[(LowestArgMax(probe.data) % Len(ClassFruits)) + 1]

\* 'gala.jpg' with the catalog loaded: the alias of the apple entry is not
\* looked at
C16_Witness ==
    /\ variant = "binary"
    /\ fruitMetadata = CatalogDocument
    /\ Produced
    /\ probe.file.name = GalaJpg
    /\ CatalogAliasHits # {}
    /\ Result.fruitType = "unknown"

----------------------------------------------------------------------------
\* Direct invocations of getFruitMetadata, with invocations of formatResults
\* in between, once the catalog document is loaded

MaxLookups == 4

\* what formatResults is handed in between
LookupFormats ==
    IF variant = "binary"
    THEN { [data |-> << 10 >>, file |-> [type |-> "file", name |-> ApplePng]],
           [data |-> << 80 >>, file |-> [type |-> "string", name |-> BananaJpg]] }
    ELSE { [data |-> Sparse(NumClasses, 1, 60, 2, 30), file |-> NoFile] }

InitLookup ==
    /\ variant \in {"binary", "multi"}
    /\ model = "null"
    /\ isModelLoading = FALSE
    /\ fruitMetadata \in Documents
    /\ fruitTypeCache = << >>
    /\ probe = Idle
    /\ probeOut = NoOutput
    /\ dom = NewPage("app.js")
    /\ inits = << >>
    /\ calls = << >>
    /\ events = << >>
    /\ appState = InitialAppState
    /\ lookups = << >>
    /\ appended = NoneAppended
    /\ uploads = << >>

\* getFruitMetadata(fruitType) is invoked
GetFruitMetadata(fruitType) ==
    /\ Len(lookups) < MaxLookups
    /\ lookups' = Append(lookups,
          [fn |-> "getFruitMetadata", fruitType |-> fruitType,
           out |-> getFruitMetadata(fruitTypeCache, fruitMetadata, fruitType)])
    /\ fruitTypeCache' = cacheAfterLookup(fruitTypeCache, fruitMetadata, fruitType)
    /\ UNCHANGED <<variant, model, isModelLoading, fruitMetadata, probeVars, pageVars, appended, uploads>>

\* formatResults(predictionData, originalFile) is invoked
FormatResults(args) ==
    /\ Len(lookups) < MaxLookups
    /\ \E results \in {formatResults(fruitTypeCache, fruitMetadata, args.data, args.file)} :
          /\ lookups' = Append(lookups,
                [fn |-> "formatResults", fruitType |-> results[1].fruitType, out |-> results])
          /\ fruitTypeCache' = cacheAfterFormat(fruitTypeCache, fruitMetadata, results)
    /\ UNCHANGED <<variant, model, isModelLoading, fruitMetadata, probeVars, pageVars, appended, uploads>>

NextLookup ==
    \/ \E fruitType \in AskedFruitTypes : GetFruitMetadata(fruitType)
    \/ \E args \in LookupFormats : FormatResults(args)

SpecLookup == InitLookup /\ [][NextLookup]_vars

----------------------------------------------------------------------------
\* Properties of the memoized lookup (checked under SpecLookup)

\* positions of the direct lookups of a fruit type
LookupsOf(f) ==
    {k \in 1..Len(lookups) : lookups[k].fn = "getFruitMetadata" /\ lookups[k].fruitType = f}

\* C17: two lookups of the same fruit type return the same entry, or both
\* return not-found, whatever was looked up or classified in between; the
\* entry is the one the catalog document holds for that name.
C17_LookupIdempotent ==
    \A f \in AskedFruitTypes :
        /\ \A i, j \in LookupsOf(f) : lookups[i].out = lookups[j].out
        /\ \A i \in LookupsOf(f) :
              lookups[i].out = IF EntriesNamed(f) = {} THEN << >> ELSE << FirstEntry(f) >>

\* 'banana' looked up, another type looked up, a classification of a banana,
\* and 'banana' looked up again
C17_Witness ==
    /\ Len(lookups) = 4
    /\ lookups[1].fn = "getFruitMetadata" /\ lookups[1].fruitType = "banana"
    /\ lookups[1].out = << BananaEntry >>
    /\ lookups[2].fn = "getFruitMetadata" /\ lookups[2].fruitType = "apple"
    /\ lookups[3].fn = "formatResults" /\ lookups[3].fruitType = "banana"
    /\ lookups[4].fn = "getFruitMetadata" /\ lookups[4].fruitType = "banana"
    /\ lookups[4].out = lookups[1].out

----------------------------------------------------------------------------
\* Properties of a failed call's effect on the shared state (checked under Spec)

\* the calls that settle as rejected in this step
FailingNow ==
    {c \in 1..Len(calls') :
        /\ calls'[c].pc = "settled" /\ calls'[c].outcome = "rejected"
        /\ (c > Len(calls) \/ calls[c].pc # "settled")}

\* C18 as stated: the shared state (model handle, catalog, metadata cache,
\* displayed result, history) is the same after a failed call as it was
\* before the call.
C18_AsStated ==
    \A c \in Rejected : calls[c].after = calls[c].before

\* C18 (amended): the step in which a call runs its stages and fails changes
\* none of the model handle, the catalog, the metadata cache, the displayed
\* result and the history, and dispatches nothing, so the next call finds
\* them as if the failed call had not been made; a call invoked while a model
\* is installed fails in the step it is invoked in.  (A call invoked while no
\* model is installed first runs initializeClassifier, which installs one
\* whether or not the call then fails.)
C18_FailureFrame ==
    [][ FailingNow # {} =>
          /\ UNCHANGED <<model, fruitMetadata, fruitTypeCache, events>>
          /\ appState'.classificationResults = appState.classificationResults
          /\ appState'.classificationHistory = appState.classificationHistory
          /\ \A c \in FailingNow : calls'[c].init = 0 => calls'[c].after = calls'[c].before
      ]_vars

\* a call failed in predict with the loaded model; the next call found the
\* shared state as it was before the failed one, and succeeded
C18_Witness ==
    /\ Len(calls) = 2
    /\ calls[1].outcome = "rejected" /\ calls[1].stage = "predict" /\ calls[1].init = 0
    /\ calls[1].after = calls[1].before
    /\ calls[2].outcome = "resolved" /\ calls[2].init = 0
    /\ calls[2].before = calls[1].before
    /\ appState.classificationResults = calls[2].result

----------------------------------------------------------------------------
\* Properties of the settling of calls (checked under SpecLive)

Started(c) == c <= Len(calls)
Settled(c) == c <= Len(calls) /\ calls[c].pc = "settled"

\* C19: every call that has started eventually settles, resolved with a
\* result or rejected; and no step, a later submission included, removes a
\* call, takes a settled call's outcome back, or ends a waiting call in any
\* way other than settling it.
C19_EveryCallSettles ==
    /\ \A c \in 1..MaxCalls : Started(c) ~> Settled(c)
    /\ [][ /\ Len(calls') >= Len(calls)
           /\ \A c \in 1..Len(calls) :
                 /\ calls'[c].pc \in {calls[c].pc, "settled"}
                 /\ calls[c].pc = "settled" => calls'[c] = calls[c]
                 /\ calls'[c].pc = "settled" =>
                       \/ calls'[c].outcome = "resolved" /\ calls'[c].result # << >>
                       \/ calls'[c].outcome = "rejected" /\ calls'[c].result = << >>
         ]_vars

\* two overlapping submissions: the second was submitted and settled while
\* the first was waiting for the model, and the first settled after it
C19_Witness ==
    /\ Len(calls) = 2
    /\ calls[1].init # 0 /\ calls[2].init = 0
    /\ Settled(1) /\ Settled(2)
    /\ Len(events) = 2
    /\ events[1].call = 2 /\ events[2].call = 1

----------------------------------------------------------------------------
\* Properties of the order of the steps within one call

\* the steps of `entered` are the first ones of the program order
InProgramOrder(entered) == \E n \in 0..Len(Stages) : entered = Entered(n)

HasEntered(c, stage) == \E k \in 1..Len(calls[c].entered) : calls[c].entered[k] = stage

\* a result with its category, its confidences and both texts
Complete(result) ==
    /\ result.ripeness \in {RIPENESS_CATEGORIES[k] : k \in 1..4}
    /\ result.confidence # NaN
    /\ Len(result.allConfidences) = 4
    /\ result.recommendedAction # ""
    /\ result.ripenessIndicators # ""

\* C20: the steps of a call are entered in the order preprocessing,
\* model.predict, dataSync, formatResults (mapping, then the texts), dispatch,
\* each only after the ones before it returned: a call that failed ended in
\* the last step it entered, so model.predict is not entered by a call whose
\* preprocessing failed; and the event is dispatched exactly for the calls
\* that went through every step, carrying the complete result they built.
C20_StageOrder ==
    \A c \in 1..Len(calls) :
        /\ InProgramOrder(calls[c].entered)
        /\ calls[c].pc # "settled" => calls[c].entered = << >>
        /\ calls[c].stage = "preprocess" => ~HasEntered(c, "predict")
        /\ calls[c].outcome = "rejected" /\ calls[c].stage # "init" =>
              /\ calls[c].entered # << >>
              /\ calls[c].entered[Len(calls[c].entered)] = calls[c].stage
        /\ calls[c].outcome = "rejected" /\ calls[c].stage = "init" =>
              calls[c].entered = << >>
        /\ calls[c].outcome = "resolved" <=> calls[c].entered = Stages
        /\ HasEntered(c, "dispatch") <=> EventsOf(c) # {}
        /\ \A e \in EventsOf(c) :
              /\ calls[c].result = << events[e].detail >>
              /\ Complete(events[e].detail)

\* with the loaded model held, one call failed in preprocessing and entered
\* nothing else, and another went through every step and was notified
C20_Witness ==
    /\ Len(calls) = 2
    /\ calls[1].handle = "real" /\ calls[1].stage = "preprocess"
    /\ calls[1].entered = << "preprocess" >>
    /\ EventsOf(1) = {}
    /\ calls[2].handle = "real" /\ calls[2].entered = Stages
    /\ EventsOf(2) = {1}
    /\ Complete(events[1].detail)

----------------------------------------------------------------------------
\* The upload component: handleFileUpload, displayUploadedImage and
\* processImageClassification, in the revision the page loads (js/upload.js)
\* and in the later revision kept in src/unnamed/part_002.  An upload is
\*   "reading"   while the FileReader and the image element are loading,
\*   "awaitInit" while the initializeClassifier() it called is pending,
\*   "done"      when classifyImage was called for it and has settled,
\*   "dropped"   when no handler is left that could do anything for it.

MaxUploads == 2

\* the files dropped or selected; all have an image MIME type
AcceptedFiles ==
    { [type |-> "file", name |-> ApplePng], [type |-> "file", name |-> BananaJpg] }

\* `decodes`: whether the browser can decode the file's content as an image
NewUpload(file, decodes) ==
    [file |-> file, decodes |-> decodes, pc |-> "reading", init |-> 0, call |-> 0,
     signals |-> 0]

\* a run of initializeClassifier that found a model and returned at once
ReturnedRun(by) ==
    [by |-> by, pc |-> "done", loadFailed |-> FALSE, catalog |-> "none",
     settle |-> "resolved", value |-> TRUE]

\* error messages shown to the user when classifyImage has settled: the
\* catch handler of part_002 calls showNotification, that of upload.js only
\* writes to the console
errorSignals(upload, out) ==
    IF out.outcome = "rejected" /\ upload = "part_002" THEN 1 ELSE 0

\* the originalFile argument: upload.js calls classifyImage(aImg)
fileArgument(upload, file) == IF upload = "part_002" THEN file ELSE NoFile

InitUpload ==
    /\ variant \in {"binary", "multi"}
    /\ model = "null"
    /\ isModelLoading = FALSE
    /\ fruitMetadata = NullMetadata
    /\ fruitTypeCache = << >>
    /\ probe = Idle
    /\ probeOut = NoOutput
    /\ dom \in { [NewPage("app.js") EXCEPT !.upload = upload] :
                     upload \in {"upload.js", "part_002"} }
    /\ inits = << >>
    /\ calls = << >>
    /\ events = << >>
    /\ appState = InitialAppState
    /\ lookups = << >>
    /\ appended = NoneAppended
    /\ uploads = << >>

\* handleFileUpload(file) with a file of an image type: displayUploadedImage
\* starts the FileReader, then appState.currentImage is set
HandleFileUpload(file, decodes) ==
    /\ dom.ready
    /\ Len(uploads) < MaxUploads
    /\ uploads' = Append(uploads, NewUpload(file, decodes))
    /\ appState' = [appState EXCEPT !.currentImage = file]
    /\ UNCHANGED <<variant, classifierVars, probeVars, dom, inits, calls, events,
                   lookups, appended>>

\* the image element fires 'error': aImg.onload never runs, and there is no
\* onerror handler
ImageFails(u) ==
    /\ uploads[u].pc = "reading"
    /\ ~uploads[u].decodes
    /\ uploads' = [uploads EXCEPT ![u].pc = "dropped"]
    /\ UNCHANGED <<variant, classifierVars, probeVars, pageVars, lookups, appended>>

\* classifyImage called for upload u with a model held (the whole body runs
\* at once), and the then/catch handlers of the caller
Classified(u) ==
    \E fault \in Faults(model), data \in dataSync(model) :
       \E out \in { pipeline(model, TRUE, fileArgument(dom.upload, uploads[u].file),
                              fault, data, fruitTypeCache, fruitMetadata) } :
          /\ events' = dispatched(events, Len(calls) + 1, out)
          /\ appState' = consumed(appState, Len(calls) + 1, out)
          /\ fruitTypeCache' = cacheAfterFormat(fruitTypeCache, fruitMetadata, out.result)
          /\ calls' = Append(calls,
                 settledCall(TRUE, fileArgument(dom.upload, uploads[u].file), 0, model, out,
                             shared(model, fruitMetadata, fruitTypeCache, appState),
                             shared(model, fruitMetadata, fruitTypeCache', appState')))
          /\ uploads' = [uploads EXCEPT
                            ![u].pc = "done",
                            ![u].call = Len(calls) + 1,
                            ![u].signals = @ + errorSignals(dom.upload, out)]

\* aImg.onload of upload.js with a model held: classifyImage(aImg)
ImageLoadsClassify(u) ==
    /\ dom.upload = "upload.js"
    /\ uploads[u].pc = "reading"
    /\ uploads[u].decodes
    /\ model # "null"
    /\ Classified(u)
    /\ UNCHANGED <<variant, model, isModelLoading, fruitMetadata, probeVars, dom, inits,
                   lookups, appended>>

\* aImg.onload of upload.js with no model held: a console warning
ImageLoadsNoModel(u) ==
    /\ dom.upload = "upload.js"
    /\ uploads[u].pc = "reading"
    /\ uploads[u].decodes
    /\ model = "null"
    /\ uploads' = [uploads EXCEPT ![u].pc = "dropped"]
    /\ UNCHANGED <<variant, classifierVars, probeVars, pageVars, lookups, appended>>

\* aImg.onload of part_002 (window.model is undefined: `model` is declared
\* with let) with a model held: initializeClassifier() returns true and the
\* then handler runs processImageClassification
ImageLoadsInitHeld(u) ==
    /\ dom.upload = "part_002"
    /\ uploads[u].pc = "reading"
    /\ uploads[u].decodes
    /\ model # "null"
    /\ inits' = Append(inits, ReturnedRun("upload"))
    /\ Classified(u)
    /\ UNCHANGED <<variant, model, isModelLoading, fruitMetadata, probeVars, dom,
                   lookups, appended>>

\* aImg.onload of part_002 with no model held: initializeClassifier() starts
\* a load of its own
ImageLoadsInitLoading(u) ==
    /\ dom.upload = "part_002"
    /\ uploads[u].pc = "reading"
    /\ uploads[u].decodes
    /\ model = "null"
    /\ inits' = Append(inits, LoadingRun("upload"))
    /\ isModelLoading' = TRUE
    /\ uploads' = [uploads EXCEPT ![u].pc = "awaitInit", ![u].init = Len(inits) + 1]
    /\ UNCHANGED <<variant, model, fruitMetadata, fruitTypeCache, probeVars, dom,
                   calls, events, appState, lookups, appended>>

\* the initializeClassifier() an upload waits for has settled: the then
\* handler runs processImageClassification
UploadResumes(u) ==
    /\ uploads[u].pc = "awaitInit"
    /\ inits[uploads[u].init].pc = "done"
    /\ Classified(u)
    /\ UNCHANGED <<variant, model, isModelLoading, fruitMetadata, probeVars, dom, inits,
                   lookups, appended>>

NextUpload ==
    \/ DOMContentLoaded
    \/ \E ok \in BOOLEAN : AppMetadataSettles(ok)
    \/ \E i \in 1..Len(inits) : LoadSucceeds(i)
    \/ \E i \in 1..Len(inits) : LoadFails(i)
    \/ \E i \in 1..Len(inits), ok \in BOOLEAN : MetadataSettles(i, ok)
    \/ \E file \in AcceptedFiles, decodes \in BOOLEAN : HandleFileUpload(file, decodes)
    \/ \E u \in 1..Len(uploads) : ImageFails(u)
    \/ \E u \in 1..Len(uploads) : ImageLoadsClassify(u)
    \/ \E u \in 1..Len(uploads) : ImageLoadsNoModel(u)
    \/ \E u \in 1..Len(uploads) : ImageLoadsInitHeld(u)
    \/ \E u \in 1..Len(uploads) : ImageLoadsInitLoading(u)
    \/ \E u \in 1..Len(uploads) : UploadResumes(u)

SpecUpload == InitUpload /\ [][NextUpload]_vars

----------------------------------------------------------------------------
\* Properties of the tensors of a call (checked under Spec)

\* C22: when a call has settled, the tensors it created (the preprocessed
\* image and the prediction) have all been disposed of, whichever way it
\* ended, so the calls made so far hold no live tensor.
C22_NoLiveTensors ==
    \A c \in 1..Len(calls) : calls[c].pc = "settled" => calls[c].live = 0

\* a call in which model.predict threw, and one in which dataSync threw
C22_Witness ==
    /\ Len(calls) = 2
    /\ calls[1].stage = "predict" /\ calls[1].live = 1
    /\ calls[2].stage = "dataSync" /\ calls[2].live = 2

----------------------------------------------------------------------------
\* Properties of the catalog load of initializeClassifier (checked under Spec)

\* runs of initializeClassifier whose call of loadFruitMetadata has returned
CatalogAttempted == {i \in 1..Len(inits) : inits[i].catalog # "none"}

\* C24: every run of initializeClassifier that has settled made one catalog
\* load attempt, whether its model load succeeded or failed; and once an
\* attempt has finished, neither the classifier's catalog nor the copy the
\* page's loadFruitMetadata stores in appState changes again.
C24_CatalogLoadedOnce ==
    /\ [](\A i \in 1..Len(inits) : inits[i].pc = "done" => i \in CatalogAttempted)
    /\ [][ CatalogAttempted # {} =>
              /\ fruitMetadata' = fruitMetadata
              /\ appState'.fruitMetadata = appState.fruitMetadata ]_vars

\* a run whose model load failed has settled without calling loadFruitMetadata
C24_Witness ==
    \E i \in 1..Len(inits) :
        inits[i].pc = "done" /\ inits[i].loadFailed /\ inits[i].catalog = "none"

----------------------------------------------------------------------------
\* Properties of the consumers of the notification (checked under SpecHistory)

\* C29: after start-up, each 'classification-complete' notification makes
\* displayResults run once and the history grow by one entry before the
\* eviction: displayResults has run as often as notifications were handled,
\* and each notification appended one entry.
C29_OneConsumerRun ==
    [][ appended'.notified = appended.notified + 1 =>
          /\ appended'.displayed = appended.displayed + 1
          /\ \/ Len(appState'.classificationHistory) = Len(History) + 1
             \/ /\ Len(History) = HistoryLimit
                /\ Len(appState'.classificationHistory) = HistoryLimit
                /\ dom.app = "app.js" ]_vars

\* the results display kept in js/upload.js under app.js: one notification
\* handled, displayResults run twice
C29_Witness ==
    /\ dom.display = "upload.js" /\ dom.app = "app.js"
    /\ dom.displayListeners = 2
    /\ appended.notified = 1 /\ appended.displayed = 2
    /\ Len(History) = 1

----------------------------------------------------------------------------
\* Properties of the selected category of the binary revision (checked under
\* SpecFormat)

\* C25: in the binary revision, for every score of [0,1], no entry of
\* allConfidences is strictly greater than the confidence of the result,
\* which is that of the selected category.
C25_SelectedIsLargest ==
    (variant = "binary" /\ Produced /\ Len(probe.data) = 1) =>
        \A k \in 1..Len(Result.allConfidences) :
            ~Lt(Result.confidence, Result.allConfidences[k].confidence)

\* score 0.3: overripe is selected with confidence 0, the ripe entry is 100
C25_Witness ==
    /\ variant = "binary" /\ Produced
    /\ probe.data = << 30 >>
    /\ Result.ripeness = "overripe" /\ Result.confidence = 0
    /\ EntryOf(Result, "ripe") = 1000

----------------------------------------------------------------------------
\* Direct invocations of extractFruitType and of getFruitTypeFromFileName
\* (js/utils.js) on the names of their list followed by an image extension

ImageExtensions ==
    { <<".","j","p","g">>, <<".","p","n","g">>, <<".","j","p","e","g">> }

\* fileName.split('.')[0]
BeforeFirstDot(s) ==
    IF \E k \in 1..Len(s) : s[k] = "."
    THEN SubSeq(s, 1, (CHOOSE k \in 1..Len(s) :
                          s[k] = "." /\ \A j \in 1..(k - 1) : s[j] # ".") - 1)
    ELSE s

\* getFruitTypeFromFileName of js/utils.js
getFruitTypeFromFileName(fileName) ==
    LET hits == {k \in 1..Len(FallbackFruits) :
                    Includes(ToLowerCase(BeforeFirstDot(fileName)), Chars[FallbackFruits[k]])}
    IN IF hits = {} THEN "unknown"
       ELSE FallbackFruits[CHOOSE k \in hits : \A j \in hits : k <= j]

\* the arguments tried: each name of the list with each extension, as a
\* string and as a File
NamedFiles ==
    { [fruit |-> FallbackFruits[k], type |-> type, name |-> Chars[FallbackFruits[k]] \o ext] :
        k \in 1..Len(FallbackFruits), ext \in ImageExtensions, type \in {"string", "file"} }

InitNames ==
    /\ variant = "binary"
    /\ model = "null"
    /\ isModelLoading = FALSE
    /\ fruitMetadata = NullMetadata
    /\ fruitTypeCache = << >>
    /\ probe \in [fn : {"extractFruitType", "getFruitTypeFromFileName"}, file : NamedFiles]
    /\ probeOut = NoOutput
    /\ dom = NewPage("app.js")
    /\ inits = << >>
    /\ calls = << >>
    /\ events = << >>
    /\ appState = InitialAppState
    /\ lookups = << >>
    /\ appended = NoneAppended
    /\ uploads = << >>

\* extractFruitType(fileOrName) is called
ExtractFruitType ==
    /\ probe.fn = "extractFruitType"
    /\ ~probeOut.done
    /\ probeOut' = [done |-> TRUE,
                    out |-> extractFruitType([type |-> probe.file.type, name |-> probe.file.name])]
    /\ UNCHANGED <<variant, classifierVars, probe, pageVars, logVars>>

\* getFruitTypeFromFileName(fileName) is called with the name of the file
GetFruitTypeFromFileName ==
    /\ probe.fn = "getFruitTypeFromFileName"
    /\ ~probeOut.done
    /\ probeOut' = [done |-> TRUE, out |-> getFruitTypeFromFileName(probe.file.name)]
    /\ UNCHANGED <<variant, classifierVars, probe, pageVars, logVars>>

NextNames == ExtractFruitType \/ GetFruitTypeFromFileName

SpecNames == InitNames /\ [][NextNames]_vars

----------------------------------------------------------------------------
\* Properties of the fruit names of the list (checked under SpecNames)

\* C30: each of the 14 names of the list is returned for a file name made of
\* that name and an image extension, by extractFruitType and by
\* getFruitTypeFromFileName.
C30_EveryNameReachable ==
    probeOut.done => probeOut.out = probe.file.fruit

\* 'pineapple.jpg' is answered with 'apple' by both functions
C30_Witness ==
    /\ probeOut.done
    /\ probe.file.fruit = "pineapple"
    /\ probeOut.out = "apple"

----------------------------------------------------------------------------
\* Properties of initializeClassifier on the page with uploads (checked under
\* SpecUpload)

\* the runs that settle in the step: pending before, or invoked in it
SettlingNow ==
    {i \in 1..Len(inits') :
        inits'[i].pc = "done" /\ (i > Len(inits) \/ inits[i].pc # "done")}

\* C21: a run of initializeClassifier resolves with true exactly when the
\* handle held in `model` as it settles is the loaded model, and with false
\* when it is the mock; the first run and every later one.
C21_TrueIffLoaded ==
    [][ \A i \in SettlingNow :
           /\ inits'[i].settle = "resolved"
           /\ inits'[i].value <=> (model' = "real") ]_vars

\* the second run found the mock the first one had installed, and resolved
\* with true
C21_Witness ==
    /\ Len(inits) = 2
    /\ inits[1].loadFailed /\ ~inits[1].value
    /\ model = "mock"
    /\ inits[2] = ReturnedRun("upload")

\* C23: once `model` is non-null it is not assigned again, whatever the
\* interleaving of the runs of initializeClassifier started at start-up and
\* by uploads, and of the classifyImage calls.
C23_HandleReadOnly ==
    [][ model # "null" => model' = model ]_vars

\* two runs awaited their own load; the handle the first installed was
\* replaced by the second, and a classification was served by each
C23_Witness ==
    /\ Len(inits) = 2
    /\ inits[1].pc = "done" /\ ~inits[1].loadFailed
    /\ inits[2].pc = "done" /\ inits[2].loadFailed
    /\ model = "mock"
    /\ \E c \in 1..Len(calls) : calls[c].handle = "mock"

\* runs of initializeClassifier that have not settled
InFlight == {i \in 1..Len(inits) : inits[i].pc # "done"}

\* C26: at most one run of initializeClassifier is loading at any time (a
\* call made while an earlier one is pending starts no second load), and
\* isModelLoading is true exactly while one is.
C26_SingleLoad ==
    /\ Cardinality(InFlight) <= 1
    /\ isModelLoading <=> InFlight # {}

\* the start-up run and the run an upload started both await their load
C26_Witness ==
    /\ Len(inits) = 2
    /\ inits[1].by = "app" /\ inits[1].pc = "load"
    /\ inits[2].by = "upload" /\ inits[2].pc = "load"

----------------------------------------------------------------------------
\* Properties of the uploads (checked under SpecUpload)

\* what the user gets for upload u: the 'classification-complete' events of
\* its call, and the error messages shown for it
Outcomes(u) ==
    (IF uploads[u].call = 0 THEN 0 ELSE Cardinality(EventsOf(uploads[u].call)))
        + uploads[u].signals

\* no handler is left to run for upload u
Finished(u) == uploads[u].pc \in {"done", "dropped"}

\* C27: every accepted file ends with exactly one outcome, a notification or
\* an error message, whether or not the model was loaded when it was
\* uploaded and whether or not it decodes: an upload never has more than one
\* outcome, and it is not left without one when nothing more will run for it.
C27_OneOutcomePerUpload ==
    \A u \in 1..Len(uploads) :
        /\ Outcomes(u) <= 1
        /\ Finished(u) => Outcomes(u) = 1

\* a file that does not decode, uploaded with the model loaded: nothing ran
\* for it; and a second upload that was classified and notified
C27_Witness ==
    /\ Len(uploads) = 2
    /\ ~uploads[1].decodes /\ uploads[1].pc = "dropped" /\ Outcomes(1) = 0
    /\ uploads[2].pc = "done" /\ Outcomes(2) = 1

\* every upload was classified and its call resolved
AllUploadsSucceeded ==
    /\ uploads # << >>
    /\ \A u \in 1..Len(uploads) :
          uploads[u].pc = "done" /\ calls[uploads[u].call].outcome = "resolved"

\* C28: once every upload has settled successfully, appState.currentImage is
\* the file uploaded last and appState.classificationResults is the result
\* of classifying it, in whatever order the images finished loading.
C28_ResultOfCurrentImage ==
    AllUploadsSucceeded =>
        /\ appState.currentImage = uploads[Len(uploads)].file
        /\ appState.classificationResults = calls[uploads[Len(uploads)].call].result

\* the image uploaded second finished loading first: the result displayed at
\* the end is that of the first upload, not of the current image
C28_Witness ==
    /\ Len(uploads) = 2 /\ AllUploadsSucceeded
    /\ uploads[2].call = 1 /\ uploads[1].call = 2
    /\ appState.currentImage = uploads[2].file
    /\ appState.classificationResults = calls[2].result
    /\ calls[2].result # calls[1].result

====
